---- MODULE Spec2Model ----
(***************************************************************************)
(* The flight-delay ETL of src/ETL_SCRIPT.py as a state machine.           *)
(*                                                                         *)
(* etl_process walks the configured years; for each year it connects to    *)
(* the source database, extracts FLIGHT, AIRLINE and AIRPORT, transforms   *)
(* them and calls load_data on the one target connection.  Every call on   *)
(* the target cursor is one step.  The target database is held twice: db   *)
(* is what is committed, tx is what the open connection sees (committed    *)
(* rows plus the inserts of the open transaction).  commit copies tx to    *)
(* db, rollback copies db to tx.  IDENTITY counters are not transactional. *)
(*                                                                         *)
(* The FOREIGN KEY clauses of FactFlight (lines 96-99) are not enforced by *)
(* the modelled storage: load_data is checked on what it sends on its own. *)
(* Of the fact columns DISTANCE, ARRIVAL_DELAY, DEPARTURE_DELAY and         *)
(* DEPARTURE_TIME are carried.  A string value is the sequence of its      *)
(* characters.                                                             *)
(***************************************************************************)
EXTENDS Integers, Sequences, FiniteSets, TLC

(***************************************************************************)
(* Bounds of the model                                                     *)
(***************************************************************************)
\* rows of FLIGHT per source database, run of three years
MaxFlights == 1
\* rows of AIRLINE per source database, run of three years
MaxAirlines == 1
\* rows of AIRPORT per source database, and of AIRLINE in the run of a single year
MaxRefRows == 2
\* rows of FLIGHT of the source database, run of a single year
MaxFlightsLoad == 5
\* largest configured BATCH_SIZE
MaxBatch == 2
\* rows of FLIGHT in the run over the values of DEPARTURE_TIME
MaxTimeRows == 2
\* rows of FLIGHT in the run over the dates
MaxDateRows == 2

(***************************************************************************)
(* Values                                                                  *)
(***************************************************************************)
\* Python's None, SQL NULL: an integer that no key, date part or count takes
None == -1

\* years_to_test of __main__
Years == <<2015, 2022, 2023>>

\* a call of etl_process for one year
SingleYear == <<2023>>

\* first value of the IDENTITY(1,1) columns
IdentitySeed == 1

\* values of the column DEPARTURE_TIME as pyodbc hands them over: None, a str
\* or a datetime.time
PyNone ==
  [type |-> "NoneType", chars |-> <<>>, hour |-> 0, minute |-> 0, second |-> 0,
   microsecond |-> 0]

PyStr(cs) == [PyNone EXCEPT !.type = "str", !.chars = cs]

PyTime(h, m, sec, us) ==
  [type |-> "time", chars |-> <<>>, hour |-> h, minute |-> m, second |-> sec,
   microsecond |-> us]

FlightAA ==
  [YEAR |-> 2015, MONTH |-> 3, DAY |-> 5, AIRLINE |-> "AA",
   ORIGIN_AIRPORT |-> "JFK", DESTINATION_AIRPORT |-> "LAX", DISTANCE |-> 2475,
   ARRIVAL_DELAY |-> 12, DEPARTURE_DELAY |-> 7,
   DEPARTURE_TIME |-> PyTime(8, 15, 0, 123456)]

FlightDL ==
  [YEAR |-> 2015, MONTH |-> 12, DAY |-> 31, AIRLINE |-> "DL",
   ORIGIN_AIRPORT |-> "LAX", DESTINATION_AIRPORT |-> "JFK", DISTANCE |-> 2475,
   ARRIVAL_DELAY |-> None, DEPARTURE_DELAY |-> 30,
   DEPARTURE_TIME |-> PyTime(8, 15, 0, 123456)]

\* a FLIGHT row with MONTH NULL: f"{month:02d}" raises TypeError
FlightNoMonth ==
  [YEAR |-> 2015, MONTH |-> None, DAY |-> 5, AIRLINE |-> "AA",
   ORIGIN_AIRPORT |-> "JFK", DESTINATION_AIRPORT |-> "LAX", DISTANCE |-> 2475,
   ARRIVAL_DELAY |-> 12, DEPARTURE_DELAY |-> 7,
   DEPARTURE_TIME |-> PyTime(8, 15, 0, 123456)]

FlightRows == {FlightAA, FlightNoMonth}

\* values of DEPARTURE_TIME: two time objects, "08:15:00", "8:15", fractions
\* of 7 and of 8 digits, "", blanks, "null", "NULL", a leading blank, a
\* trailing newline, and NULL
RawTimes ==
  { PyTime(8, 15, 0, 123456),
    PyTime(23, 59, 59, 0),
    PyStr(<<"0", "8", ":", "1", "5", ":", "0", "0">>),
    PyStr(<<"8", ":", "1", "5">>),
    PyStr(<<"0", "8", ":", "1", "5", ":", "0", "0", ".", "1", "2", "3", "4", "5", "6", "7">>),
    PyStr(<<"0", "8", ":", "1", "5", ":", "0", "0", ".", "1", "2", "3", "4", "5", "6", "7", "8">>),
    PyStr(<<>>),
    PyStr(<<" ", " ">>),
    PyStr(<<"n", "u", "l", "l">>),
    PyStr(<<"N", "U", "L", "L">>),
    PyStr(<<" ", "0", "8", ":", "1", "5", ":", "0", "0">>),
    PyStr(<<"0", "8", ":", "1", "5", ":", "0", "0", "\n">>),
    PyNone }

DateRow(y, m, d) == [FlightAA EXCEPT !.YEAR = y, !.MONTH = m, !.DAY = d]

\* dates whose month and day have one and two digits, in the first and the
\* last four-digit year and in 2023
FlightRowsDate ==
  {DateRow(2023, m, d) : m \in {1, 11}, d \in {1, 11}}
     \cup {DateRow(y, m, d) : y \in {1000, 9999}, m \in {1, 12}, d \in {1, 31}}

\* every month and day of one year
FlightRowsCalendar == {DateRow(2023, m, d) : m \in 1..12, d \in 1..31}

FlightRowsTime == {[FlightAA EXCEPT !.DEPARTURE_TIME = t] : t \in RawTimes}

FlightRowsLoad == {FlightAA, FlightDL}

AirlineRows ==
  { [IATA_CODE |-> "AA", AIRLINE |-> "American"],
    [IATA_CODE |-> "AA", AIRLINE |-> "American Airlines"] }

AirlineRowsLoad == AirlineRows \cup {[IATA_CODE |-> "DL", AIRLINE |-> "Delta"]}

\* the column STATE is written State (STATE is a reserved word)
AirportRows ==
  { [IATA_CODE |-> "JFK", AIRPORT |-> "Kennedy", CITY |-> "New York", State |-> "NY"],
    [IATA_CODE |-> "LAX", AIRPORT |-> "Los Angeles Intl", CITY |-> "Los Angeles", State |-> "CA"] }

(***************************************************************************)
(* Helpers                                                                 *)
(***************************************************************************)
Range(s) == {s[k] : k \in 1..Len(s)}

SeqUpTo(S, n) == UNION {[1..k -> S] : k \in 0..n}

\* the orders in which Python may iterate a set
Orders(S) == {s \in [1..Cardinality(S) -> S] : Range(s) = S}

Max(a, b) == IF a >= b THEN a ELSE b

RECURSIVE Digits(_)
Digits(n) == IF n < 10 THEN 1 ELSE 1 + Digits(n \div 10)

RECURSIVE Pow10(_)
Pow10(k) == IF k = 0 THEN 1 ELSE 10 * Pow10(k - 1)

\* width of f"{x}": no padding
WidthNoPad(x) == Digits(x)

\* width of f"{x:02d}": at least two digits, never truncated
Width02d(x) == Max(2, Digits(x))

\* int(f"{year}{month:02d}{day:02d}") for non-negative integers
DateKeyOf(year, month, day) ==
  (year * Pow10(Width02d(month)) + month) * Pow10(Width02d(day)) + day

\* Python truthiness of a key read from a dict.get: None and 0 are false
Truthy(k) == k # None /\ k # 0

\* dict.get(key) on a map held as a function
Get(map, key) == IF key \in DOMAIN map THEN map[key] ELSE None

EmptyDb == [DimDate |-> {}, DimAirline |-> {}, DimAirport |-> {}, FactFlight |-> {}]

EmptyMap == [c \in {} |-> None]

(***************************************************************************)
(* State                                                                   *)
(***************************************************************************)
VARIABLES
  years,            \* argument of etl_process
  drop_target,      \* argument of etl_process
  BATCH_SIZE,       \* module parameter
  pc,               \* position in etl_process / load_data
  yi,               \* index of the loop "for year in years"
  target_exists,    \* the target database exists on the server
  target_conn,      \* "none", "open", "closed"
  source_conn,      \* "none", "open", "closed"
  db,               \* committed tables of the target
  tx,               \* tables as seen by the target connection
  identity,         \* next IDENTITY value per table
  flight_data, airline_data, airport_data,
  dim_date_data, dim_airline_data, dim_airport_data, fact_flight_data,
  invalid_times,    \* local of transform_data: (row index, value) of rejected times
  airline_map, airport_map, date_map,
  total_inserted, batch_params, skipped_rows, i,
  total_flights,    \* result of the final COUNT(*), None before
  log,              \* calls issued on the target cursor by the current load_data
  attempted,        \* years whose source connection was requested, in order
  history           \* observations kept for the properties

source == <<flight_data, airline_data, airport_data>>
transformed == <<dim_date_data, dim_airline_data, dim_airport_data, fact_flight_data,
                 invalid_times>>
maps == <<airline_map, airport_map, date_map>>
factloop == <<total_inserted, batch_params, skipped_rows, i>>
config == <<years, drop_target, BATCH_SIZE>>
storage == <<db, tx, identity>>
conns == <<target_exists, target_conn, source_conn>>

vars == <<config, pc, yi, conns, storage, source, transformed, maps, factloop,
          total_flights, log, attempted, history>>

NoHistory ==
  [ periodDb |-> EmptyDb,        \* db when the current period started
    periodFact |-> IdentitySeed, \* identity.FactFlight when it started
    extractFailed |-> {},        \* what of the current period's extract failed
    prevCands |-> <<>>,          \* candidates of the last committed dimension load
    prevDims |-> <<>>,           \* dimension tables right after that commit
    repeat |-> FALSE,            \* this load_data has the candidates of the one before
    dropFailed |-> FALSE,        \* drop_database returned False
    bootstrapped |-> FALSE,      \* the tables were created and committed
    counted |-> 0 ]              \* SELECT COUNT(*) FROM FactFlight was issued

InitWith(ys, drop, sizes) ==
  /\ years = ys
  /\ drop_target = drop
  /\ BATCH_SIZE \in sizes
  /\ pc = "start"
  /\ yi = 1
  /\ target_exists = TRUE
  /\ target_conn = "none"
  /\ source_conn = "none"
  /\ db = EmptyDb
  /\ tx = EmptyDb
  /\ identity = [DimAirline |-> IdentitySeed, DimAirport |-> IdentitySeed,
                 FactFlight |-> IdentitySeed]
  /\ flight_data = <<>> /\ airline_data = <<>> /\ airport_data = <<>>
  /\ dim_date_data = <<>> /\ dim_airline_data = {} /\ dim_airport_data = {}
  /\ fact_flight_data = <<>> /\ invalid_times = <<>>
  /\ airline_map = EmptyMap /\ airport_map = EmptyMap /\ date_map = {}
  /\ total_inserted = 0 /\ batch_params = <<>> /\ skipped_rows = 0 /\ i = 1
  /\ total_flights = None
  /\ log = <<>>
  /\ attempted = <<>>
  /\ history = NoHistory

\* etl_process(years_to_test, drop_target=False) of __main__
Init == InitWith(Years, FALSE, {1})

InitLoad == InitWith(SingleYear, FALSE, 1..MaxBatch)

InitDrop == InitWith(SingleYear, TRUE, {1})

InitTime == InitWith(SingleYear, FALSE, {1})

InitDate == InitWith(SingleYear, FALSE, {1})

(***************************************************************************)
(* etl_process: before the loop over the years                             *)
(***************************************************************************)
\* line 304 when drop_target is false
Start ==
  /\ pc = "start"
  /\ ~drop_target
  /\ pc' = "connect_target"
  /\ UNCHANGED <<config, yi, conns, storage, source, transformed, maps, factloop,
                 total_flights, log, attempted, history>>

\* lines 304-305, drop_database (27-51): the result is not looked at
DropDatabase ==
  /\ pc = "start"
  /\ drop_target
  /\ pc' = "connect_target"
  /\ \/ /\ target_exists' = FALSE
        /\ db' = EmptyDb /\ tx' = EmptyDb
        /\ UNCHANGED <<identity, history>>
     \/ /\ history' = [history EXCEPT !.dropFailed = TRUE]
        /\ UNCHANGED <<target_exists, storage>>
  /\ UNCHANGED <<config, yi, target_conn, source_conn, source, transformed, maps,
                 factloop, total_flights, log, attempted>>

\* lines 308-310, connect_to_db (9-25): None on pyodbc.Error, then return
ConnectTarget ==
  /\ pc = "connect_target"
  /\ \/ /\ target_exists
        /\ target_conn' = "open"
        /\ pc' = "create_tables"
     \/ /\ pc' = "done"
        /\ UNCHANGED target_conn
  /\ UNCHANGED <<config, yi, target_exists, source_conn, storage, source,
                 transformed, maps, factloop, total_flights, log, attempted, history>>

\* lines 314-315 with the exception of the DDL swallowed
CreateTablesSwallow ==
  /\ pc = "create_tables"
  /\ \/ /\ db' = tx
        /\ pc' = "loop"
        /\ history' = [history EXCEPT !.bootstrapped = TRUE]
        /\ UNCHANGED <<tx, identity>>
     \/ /\ tx' = db
        /\ pc' = "loop"
        /\ UNCHANGED <<db, identity, history>>
  /\ UNCHANGED <<config, yi, conns, source, transformed, maps, factloop,
                 total_flights, log, attempted>>

\* lines 314-315, and 352-354 when the DDL or its commit raises
CreateTables ==
  /\ pc = "create_tables"
  /\ \/ /\ db' = tx
        /\ pc' = "loop"
        /\ history' = [history EXCEPT !.bootstrapped = TRUE]
        /\ UNCHANGED <<tx, identity>>
     \/ /\ tx' = db
        /\ pc' = "finally"
        /\ UNCHANGED <<db, identity, history>>
  /\ UNCHANGED <<config, yi, conns, source, transformed, maps, factloop,
                 total_flights, log, attempted>>

(***************************************************************************)
(* etl_process: one year                                                   *)
(***************************************************************************)
\* lines 317-322 with "break" for "continue"
ConnectSourceBreak ==
  /\ pc = "loop"
  /\ yi <= Len(years)
  /\ attempted' = Append(attempted, years[yi])
  /\ \/ /\ source_conn' = "open"
        /\ pc' = "extract_flight"
        /\ history' = [history EXCEPT !.periodDb = db,
                                      !.periodFact = identity.FactFlight,
                                      !.extractFailed = {}]
        /\ UNCHANGED yi
     \/ /\ yi' = Len(years) + 1
        /\ UNCHANGED <<pc, source_conn, history>>
  /\ UNCHANGED <<config, target_exists, target_conn, storage, source, transformed,
                 maps, factloop, total_flights, log>>

\* lines 317-322: open the year's source database, continue when it fails
ConnectSource ==
  /\ pc = "loop"
  /\ yi <= Len(years)
  /\ attempted' = Append(attempted, years[yi])
  /\ \/ /\ source_conn' = "open"
        /\ pc' = "extract_flight"
        /\ history' = [history EXCEPT !.periodDb = db,
                                      !.periodFact = identity.FactFlight,
                                      !.extractFailed = {}]
        /\ UNCHANGED yi
     \/ /\ yi' = yi + 1
        /\ UNCHANGED <<pc, source_conn, history>>
  /\ UNCHANGED <<config, target_exists, target_conn, storage, source, transformed,
                 maps, factloop, total_flights, log>>

\* extract_data (103-120): the rows of the table, or [] on pyodbc.Error
ExtractResult(table, rows, result) ==
  \/ result = rows /\ UNCHANGED history
  \/ /\ result = <<>>
     /\ history' = [history EXCEPT !.extractFailed = @ \cup {table}]

\* line 326
ExtractFlight(inputs) ==
  /\ pc = "extract_flight"
  /\ \E rows \in inputs : ExtractResult("FLIGHT", rows, flight_data')
  /\ pc' = "extract_airline"
  /\ UNCHANGED <<config, yi, conns, storage, airline_data, airport_data, transformed,
                 maps, factloop, total_flights, log, attempted>>

\* line 327
ExtractAirline(inputs) ==
  /\ pc = "extract_airline"
  /\ \E rows \in inputs :
        ExtractResult("AIRLINE", rows, airline_data')
  /\ pc' = "extract_airport"
  /\ UNCHANGED <<config, yi, conns, storage, flight_data, airport_data, transformed,
                 maps, factloop, total_flights, log, attempted>>

\* line 328
ExtractAirport(inputs) ==
  /\ pc = "extract_airport"
  /\ \E rows \in inputs :
        ExtractResult("AIRPORT", rows, airport_data')
  /\ pc' = "transform"
  /\ UNCHANGED <<config, yi, conns, storage, flight_data, airline_data, transformed,
                 maps, factloop, total_flights, log, attempted>>

(***************************************************************************)
(* transform_data                                                          *)
(***************************************************************************)
\* the characters of the decimal digits
DigitChars == <<"0", "1", "2", "3", "4", "5", "6", "7", "8", "9">>

\* \d of the pattern of line 176, on the characters of the model
IsDigit(c) == c \in Range(DigitChars)

\* what str.strip() removes
Whitespace == {" ", "\t", "\n"}

\* n in w digits with leading zeros, as %H, %M, %S and %f print it
Zfill(n, w) == [k \in 1..w |-> DigitChars[((n \div Pow10(w - k)) % 10) + 1]]

\* line 173: departure_time.strftime('%H:%M:%S.%f')
Strftime(t) ==
  Zfill(t.hour, 2) \o <<":">> \o Zfill(t.minute, 2) \o <<":">> \o Zfill(t.second, 2)
     \o <<".">> \o Zfill(t.microsecond, 6)

\* s[:-n]
DropLast(s, n) == SubSeq(s, 1, Len(s) - n)

\* str.strip()
RECURSIVE Strip(_)
Strip(s) ==
  IF s = <<>> THEN s
  ELSE IF Head(s) \in Whitespace THEN Strip(Tail(s))
  ELSE IF s[Len(s)] \in Whitespace THEN Strip(DropLast(s, 1))
  ELSE s

\* str.lower(), on the letters of the model
LowerChar(c) ==
  IF c = "N" THEN "n" ELSE IF c = "U" THEN "u" ELSE IF c = "L" THEN "l" ELSE c

Lower(s) == [k \in 1..Len(s) |-> LowerChar(s[k])]

\* \d{2}:\d{2}:\d{2}(\.\d{1,maxFraction})? on the whole of s
TimePattern(s, maxFraction) ==
  /\ Len(s) >= 8
  /\ \A k \in {1, 2, 4, 5, 7, 8} : IsDigit(s[k])
  /\ s[3] = ":" /\ s[6] = ":"
  /\ \/ Len(s) = 8
     \/ /\ s[9] = "."
        /\ Len(s) - 9 \in 1..maxFraction
        /\ \A k \in 10..Len(s) : IsDigit(s[k])

\* line 176: re.match(r'^\d{2}:\d{2}:\d{2}(\.\d{1,7})?$', s); "$" matches at
\* the end of the string and before a newline that ends it
ReMatch(s) ==
  \/ TimePattern(s, 7)
  \/ Len(s) > 0 /\ s[Len(s)] = "\n" /\ TimePattern(DropLast(s, 1), 7)

\* lines 171-181 on one value: the value stored in the fact tuple and
\* whether (i, value) is appended to invalid_times
NormalizeTime(v) ==
  IF v.type = "time"
  THEN [value |-> PyStr(DropLast(Strftime(v), 3)), invalid |-> FALSE]
  ELSE IF v.type = "str" /\ Strip(v.chars) # <<>>
          /\ Lower(Strip(v.chars)) # <<"n", "u", "l", "l">>
  THEN IF ~ReMatch(v.chars)
       THEN [value |-> PyNone, invalid |-> TRUE]
       ELSE [value |-> v, invalid |-> FALSE]
  ELSE [value |-> PyNone, invalid |-> TRUE]

\* line 130 and 157 on one row
RowDateKey(row) == DateKeyOf(row.YEAR, row.MONTH, row.DAY)

\* line 130: formatting None with 02d raises TypeError
TransformRaises(flights) ==
  \E k \in 1..Len(flights) :
     flights[k].YEAR = None \/ flights[k].MONTH = None \/ flights[k].DAY = None

\* lines 125-132 and 192: the dict's values, in first-seen order
RECURSIVE DimDateData(_)
DimDateData(flights) ==
  IF flights = <<>> THEN <<>>
  ELSE LET front == DimDateData(SubSeq(flights, 1, Len(flights) - 1))
           row == flights[Len(flights)]
           key == RowDateKey(row)
       IN IF \E k \in 1..Len(front) : front[k].DateKey = key
          THEN front
          ELSE Append(front, [DateKey |-> key, Year |-> row.YEAR,
                              Month |-> row.MONTH, Day |-> row.DAY])

\* lines 134-139: a set of (iata, airline) tuples
DimAirlineData(airlines) ==
  {[IATA_CODE |-> r.IATA_CODE, Airline |-> r.AIRLINE] : r \in Range(airlines)}

\* lines 141-148: a set of (iata, airport, city, state) tuples
DimAirportData(airports) ==
  {[IATA_CODE |-> r.IATA_CODE, Airport |-> r.AIRPORT, City |-> r.CITY,
    State |-> r.State] : r \in Range(airports)}

\* lines 151-186: one tuple per FLIGHT row, still carrying the IATA codes
FactFlightData(flights) ==
  [k \in 1..Len(flights) |->
     [date_key |-> RowDateKey(flights[k]),
      airline_iata |-> flights[k].AIRLINE,
      origin_iata |-> flights[k].ORIGIN_AIRPORT,
      dest_iata |-> flights[k].DESTINATION_AIRPORT,
      distance |-> flights[k].DISTANCE,
      arrival_delay |-> flights[k].ARRIVAL_DELAY,
      departure_delay |-> flights[k].DEPARTURE_DELAY,
      departure_time |-> NormalizeTime(flights[k].DEPARTURE_TIME).value]]

\* lines 152, 177, 180 and 188-190: (i, departure_time) of the rows whose time
\* was set to None, i counting from 0
RECURSIVE InvalidTimes(_)
InvalidTimes(flights) ==
  IF flights = <<>> THEN <<>>
  ELSE LET front == InvalidTimes(SubSeq(flights, 1, Len(flights) - 1))
           raw == flights[Len(flights)].DEPARTURE_TIME
       IN IF NormalizeTime(raw).invalid
          THEN Append(front, [row |-> Len(flights) - 1, value |-> raw])
          ELSE front

\* lines 331-334; an exception goes to the handler of line 341
Transform ==
  /\ pc = "transform"
  /\ IF TransformRaises(flight_data)
     THEN /\ pc' = "year_failed"
          /\ UNCHANGED <<transformed, log, history>>
     ELSE /\ dim_date_data' = DimDateData(flight_data)
          /\ dim_airline_data' = DimAirlineData(airline_data)
          /\ dim_airport_data' = DimAirportData(airport_data)
          /\ fact_flight_data' = FactFlightData(flight_data)
          /\ invalid_times' = InvalidTimes(flight_data)
          /\ log' = <<>>
          /\ history' = [history EXCEPT !.repeat =
                           history.prevCands = <<dim_date_data', dim_airline_data',
                                                 dim_airport_data'>>]
          /\ pc' = "dim_date"
  /\ UNCHANGED <<config, yi, conns, storage, source, maps, factloop, total_flights,
                 attempted>>

(***************************************************************************)
(* The target storage as load_data uses it                                 *)
(***************************************************************************)
\* one entry of log: a call on the target cursor or its connection, and how
\* it ended: "ok", "integrity_error" (a key constraint refused the rows),
\* "storage_error" (any other pyodbc.Error), "other_error" (not a pyodbc.Error)
Call(op, table, n, outcome) ==
  [op |-> op, table |-> table, n |-> n, outcome |-> outcome]

\* PRIMARY KEY of DimDate (58), UNIQUE of IATA_CODE (68, 76): the insert of
\* rows is refused when two of them, or one of them and a stored row, share
\* the key; storedKeys are the keys of the stored rows, newKeys of the rows sent
Violates(storedKeys, newKeys) ==
  \/ \E a, b \in 1..Len(newKeys) : a # b /\ newKeys[a] = newKeys[b]
  \/ \E a \in 1..Len(newKeys) : newKeys[a] \in storedKeys

\* IDENTITY(0,1): the values start one lower
IdentityFromZero(first, k) == first + k - 2

\* IDENTITY(1,1): the k-th row sent gets the k-th next value
IdentityOf(first, k) == first + k - 1

\* INSERT INTO DimAirline (lines 66-70, 214)
AirlineRowsOf(recs, first) ==
  {[AirlineKey |-> IdentityOf(first, k), IATA_CODE |-> recs[k].IATA_CODE,
    Airline |-> recs[k].Airline] : k \in 1..Len(recs)}

\* INSERT INTO DimAirport (lines 74-80, 225)
AirportRowsOf(recs, first) ==
  {[AirportKey |-> IdentityOf(first, k), IATA_CODE |-> recs[k].IATA_CODE,
    Airport |-> recs[k].Airport, City |-> recs[k].City, State |-> recs[k].State] :
     k \in 1..Len(recs)}

\* INSERT INTO FactFlight with the two airport columns in the other order
FactRowsOfSwapped(recs, first) ==
  {[FlightID |-> IdentityOf(first, k), DateKey |-> recs[k].date_key,
    AirlineKey |-> recs[k].airline_key, OriginAirportKey |-> recs[k].dest_key,
    DestAirportKey |-> recs[k].origin_key, Distance |-> recs[k].distance,
    ArrivalDelay |-> recs[k].arrival_delay,
    DepartureDelay |-> recs[k].departure_delay,
    DepartureTime |-> recs[k].departure_time] :
     k \in 1..Len(recs)}

\* INSERT INTO FactFlight (lines 84-95, 265-268)
FactRowsOf(recs, first) ==
  {[FlightID |-> IdentityOf(first, k), DateKey |-> recs[k].date_key,
    AirlineKey |-> recs[k].airline_key, OriginAirportKey |-> recs[k].origin_key,
    DestAirportKey |-> recs[k].dest_key, Distance |-> recs[k].distance,
    ArrivalDelay |-> recs[k].arrival_delay,
    DepartureDelay |-> recs[k].departure_delay,
    DepartureTime |-> recs[k].departure_time] :
     k \in 1..Len(recs)}

\* DELETE FROM the table, then INSERT: the table holds the new rows only
ReplaceInto(stored, rows) == rows

\* INSERT INTO a table (lines 202-205, 213-216, 224-227, 263-270): the rows
\* are added to those it holds
InsertInto(stored, rows) == stored \cup rows

DimPcs == {"dim_date", "dim_airline", "dim_airport", "commit_dims"}

\* the dimension load of this call did not complete
Forget == IF pc \in DimPcs
          THEN [history EXCEPT !.prevCands = <<>>]
          ELSE history

\* load_data is left by an exception: its locals are gone
Raise ==
  /\ pc' = "year_failed"
  /\ airline_map' = EmptyMap /\ airport_map' = EmptyMap /\ date_map' = {}
  /\ total_inserted' = 0 /\ batch_params' = <<>> /\ skipped_rows' = 0 /\ i' = 1
  /\ history' = Forget

\* lines 294-297 without the rollback of line 296
StorageErrorNoRollback(calls) ==
  /\ log' = log \o calls
  /\ Raise
  /\ UNCHANGED <<db, tx>>

\* lines 294-297: a pyodbc.Error is answered by rollback and raised again
StorageError(calls) ==
  /\ tx' = db
  /\ log' = log \o calls \o <<Call("rollback", "", 0, "ok")>>
  /\ Raise
  /\ UNCHANGED db

\* any other exception leaves load_data without a rollback
OtherError(calls) ==
  /\ log' = log \o calls
  /\ Raise
  /\ UNCHANGED <<db, tx>>

\* cursor.executemany(INSERT ..., rows) of n rows into table: the outcomes
\* that neither succeed nor break a key.  A failed INSERT is taken not to use
\* up identity values
InsertFails(table, n) ==
  \/ StorageError(<<Call("executemany", table, n, "storage_error")>>) /\ UNCHANGED identity
  \/ OtherError(<<Call("executemany", table, n, "other_error")>>) /\ UNCHANGED identity

\* the INSERT breaks PRIMARY KEY or UNIQUE: pyodbc.IntegrityError, a pyodbc.Error
InsertRefused(table, n) ==
  StorageError(<<Call("executemany", table, n, "integrity_error")>>) /\ UNCHANGED identity

\* cursor.execute(SELECT ...) raises pyodbc.Error
SelectFails == StorageError(<<>>) /\ UNCHANGED identity

(***************************************************************************)
(* load_data: the dimensions                                               *)
(***************************************************************************)
\* line 200
DatesToInsert(cands, existing) ==
  LET Fresh(rec) == rec.DateKey \notin existing
  IN SelectSeq(cands, Fresh)

\* lines 211 and 222 without the "not in existing" filter
RefsToInsertAll(cands, existing) == cands

\* lines 211 and 222
RefsToInsert(cands, existing) == {rec \in cands : rec.IATA_CODE \notin existing}

DateKeys(rows) == {r.DateKey : r \in rows}

IataCodes(rows) == {r.IATA_CODE : r \in rows}

DateKeySeq(recs) == [k \in 1..Len(recs) |-> recs[k].DateKey]

IataSeq(recs) == [k \in 1..Len(recs) |-> recs[k].IATA_CODE]

\* lines 198-206
LoadDimDate ==
  /\ pc = "dim_date"
  /\ LET existing_dates == DateKeys(tx.DimDate)
         dates_to_insert == DatesToInsert(dim_date_data, existing_dates)
         n == Len(dates_to_insert)
     IN \/ /\ n = 0
           /\ pc' = "dim_airline"
           /\ UNCHANGED <<storage, log, history, maps, factloop>>
        \/ /\ n > 0
           /\ ~Violates(DateKeys(tx.DimDate), DateKeySeq(dates_to_insert))
           /\ tx' = [tx EXCEPT !.DimDate = InsertInto(@, Range(dates_to_insert))]
           /\ log' = Append(log, Call("executemany", "DimDate", n, "ok"))
           /\ pc' = "dim_airline"
           /\ UNCHANGED <<db, identity, history, maps, factloop>>
        \/ /\ n > 0
           /\ Violates(DateKeys(tx.DimDate), DateKeySeq(dates_to_insert))
           /\ InsertRefused("DimDate", n)
        \/ n > 0 /\ InsertFails("DimDate", n)
        \/ SelectFails
  /\ UNCHANGED <<config, yi, conns, source, transformed, total_flights, attempted>>

\* lines 209-217; the list is built in the set's iteration order
LoadDimAirline ==
  /\ pc = "dim_airline"
  /\ LET existing_airlines == IataCodes(tx.DimAirline)
         to_insert == RefsToInsert(dim_airline_data, existing_airlines)
         n == Cardinality(to_insert)
     IN \/ /\ n = 0
           /\ pc' = "dim_airport"
           /\ UNCHANGED <<storage, log, history, maps, factloop>>
        \/ /\ n > 0
           /\ \E airlines_to_insert \in Orders(to_insert) :
                 /\ ~Violates(IataCodes(tx.DimAirline), IataSeq(airlines_to_insert))
                 /\ tx' = [tx EXCEPT !.DimAirline = InsertInto(@,
                             AirlineRowsOf(airlines_to_insert, identity.DimAirline))]
           /\ identity' = [identity EXCEPT !.DimAirline = @ + n]
           /\ log' = Append(log, Call("executemany", "DimAirline", n, "ok"))
           /\ pc' = "dim_airport"
           /\ UNCHANGED <<db, history, maps, factloop>>
        \/ /\ \E airlines_to_insert \in Orders(to_insert) :
                 Violates(IataCodes(tx.DimAirline), IataSeq(airlines_to_insert))
           /\ InsertRefused("DimAirline", n)
        \/ n > 0 /\ InsertFails("DimAirline", n)
        \/ SelectFails
  /\ UNCHANGED <<config, yi, conns, source, transformed, total_flights, attempted>>

\* lines 220-228
LoadDimAirport ==
  /\ pc = "dim_airport"
  /\ LET existing_airports == IataCodes(tx.DimAirport)
         to_insert == RefsToInsert(dim_airport_data, existing_airports)
         n == Cardinality(to_insert)
     IN \/ /\ n = 0
           /\ pc' = "commit_dims"
           /\ UNCHANGED <<storage, log, history, maps, factloop>>
        \/ /\ n > 0
           /\ \E airports_to_insert \in Orders(to_insert) :
                 /\ ~Violates(IataCodes(tx.DimAirport), IataSeq(airports_to_insert))
                 /\ tx' = [tx EXCEPT !.DimAirport = InsertInto(@,
                             AirportRowsOf(airports_to_insert, identity.DimAirport))]
           /\ identity' = [identity EXCEPT !.DimAirport = @ + n]
           /\ log' = Append(log, Call("executemany", "DimAirport", n, "ok"))
           /\ pc' = "commit_dims"
           /\ UNCHANGED <<db, history, maps, factloop>>
        \/ /\ \E airports_to_insert \in Orders(to_insert) :
                 Violates(IataCodes(tx.DimAirport), IataSeq(airports_to_insert))
           /\ InsertRefused("DimAirport", n)
        \/ n > 0 /\ InsertFails("DimAirport", n)
        \/ SelectFails
  /\ UNCHANGED <<config, yi, conns, source, transformed, total_flights, attempted>>

Dims(d) == <<d.DimDate, d.DimAirline, d.DimAirport>>

\* cursor.connection.commit() raises pyodbc.Error
CommitFails == StorageError(<<Call("commit", "", 0, "storage_error")>>) /\ UNCHANGED identity

\* line 231 left out: the maps are read in the open transaction
CommitDimsSkipped ==
  /\ pc = "commit_dims"
  /\ \/ /\ UNCHANGED <<db, log>>
        /\ history' = [history EXCEPT
                         !.prevCands = <<dim_date_data, dim_airline_data, dim_airport_data>>,
                         !.prevDims = Dims(tx)]
        /\ pc' = "refresh"
        /\ UNCHANGED <<tx, identity, maps, factloop>>
     \/ CommitFails
  /\ UNCHANGED <<config, yi, conns, source, transformed, total_flights, attempted>>

\* line 231
CommitDims ==
  /\ pc = "commit_dims"
  /\ \/ /\ db' = tx
        /\ log' = Append(log, Call("commit", "", 0, "ok"))
        /\ history' = [history EXCEPT
                         !.prevCands = <<dim_date_data, dim_airline_data, dim_airport_data>>,
                         !.prevDims = Dims(tx)]
        /\ pc' = "refresh"
        /\ UNCHANGED <<tx, identity, maps, factloop>>
     \/ CommitFails
  /\ UNCHANGED <<config, yi, conns, source, transformed, total_flights, attempted>>

(***************************************************************************)
(* load_data: the facts                                                    *)
(***************************************************************************)
\* lines 234-235: {iata: key for key, iata in rows}
AirlineMap(rows) ==
  [c \in IataCodes(rows) |-> (CHOOSE r \in rows : r.IATA_CODE = c).AirlineKey]

\* lines 236-237
AirportMap(rows) ==
  [c \in IataCodes(rows) |-> (CHOOSE r \in rows : r.IATA_CODE = c).AirportKey]

\* lines 234-244
RefreshMaps ==
  /\ pc = "refresh"
  /\ \/ /\ airline_map' = AirlineMap(tx.DimAirline)
        /\ airport_map' = AirportMap(tx.DimAirport)
        /\ date_map' = DateKeys(tx.DimDate)
        /\ total_inserted' = 0
        /\ batch_params' = <<>>
        /\ skipped_rows' = 0
        /\ i' = 1
        /\ pc' = "fact_loop"
        /\ UNCHANGED <<storage, log, history>>
     \/ SelectFails
  /\ UNCHANGED <<config, yi, conns, source, transformed, total_flights, attempted>>

\* line 254 without the test of dest_key
AdmissibleNoDest(airline_key, origin_key, dest_key, date_key, dates) ==
  Truthy(airline_key) /\ Truthy(origin_key) /\ date_key \in dates

\* line 254
Admissible(airline_key, origin_key, dest_key, date_key, dates) ==
  Truthy(airline_key) /\ Truthy(origin_key) /\ Truthy(dest_key) /\ date_key \in dates

\* line 262 with ">" for ">="
FlushDueStrict(params, size) == Len(params) > size

\* line 262
FlushDue(params, size) == Len(params) >= size

\* lines 272 and 287 with "=" for "+="
InsertFactsCountReset(params) ==
  /\ tx' = [tx EXCEPT !.FactFlight = InsertInto(@,
              FactRowsOf(params, identity.FactFlight))]
  /\ identity' = [identity EXCEPT !.FactFlight = @ + Len(params)]
  /\ log' = Append(log, Call("executemany", "FactFlight", Len(params), "ok"))
  /\ total_inserted' = Len(params)
  /\ batch_params' = <<>>
  /\ UNCHANGED <<db, history>>

\* lines 263-274 and 278-287 when the INSERT goes through
InsertFacts(params) ==
  /\ tx' = [tx EXCEPT !.FactFlight = InsertInto(@,
              FactRowsOf(params, identity.FactFlight))]
  /\ identity' = [identity EXCEPT !.FactFlight = @ + Len(params)]
  /\ log' = Append(log, Call("executemany", "FactFlight", Len(params), "ok"))
  /\ total_inserted' = total_inserted + Len(params)
  /\ batch_params' = <<>>
  /\ UNCHANGED <<db, history>>

\* lines 246-274: one iteration of the loop over fact_flight_data
FactIteration ==
  /\ pc = "fact_loop"
  /\ i <= Len(fact_flight_data)
  /\ LET row == fact_flight_data[i]
         airline_key == Get(airline_map, row.airline_iata)
         origin_key == Get(airport_map, row.origin_iata)
         dest_key == Get(airport_map, row.dest_iata)
         admitted == Admissible(airline_key, origin_key, dest_key, row.date_key, date_map)
         params == IF admitted
                   THEN Append(batch_params,
                               [date_key |-> row.date_key, airline_key |-> airline_key,
                                origin_key |-> origin_key, dest_key |-> dest_key,
                                distance |-> row.distance,
                                arrival_delay |-> row.arrival_delay,
                                departure_delay |-> row.departure_delay,
                                departure_time |-> row.departure_time])
                   ELSE batch_params
         skipped == IF admitted THEN skipped_rows ELSE skipped_rows + 1
     IN IF FlushDue(params, BATCH_SIZE)
        THEN \/ /\ InsertFacts(params)
                /\ skipped_rows' = skipped
                /\ i' = i + 1
                /\ UNCHANGED <<pc, maps>>
             \/ InsertFails("FactFlight", Len(params))
        ELSE /\ batch_params' = params
             /\ skipped_rows' = skipped
             /\ i' = i + 1
             /\ UNCHANGED <<pc, storage, log, history, total_inserted, maps>>
  /\ UNCHANGED <<config, yi, conns, source, transformed, total_flights, attempted>>

\* lines 276-287: what is left after the loop
FactRemaining ==
  /\ pc = "fact_loop"
  /\ i > Len(fact_flight_data)
  /\ IF batch_params # <<>>
     THEN \/ /\ InsertFacts(batch_params)
             /\ pc' = "commit_facts"
             /\ UNCHANGED <<maps, skipped_rows, i>>
          \/ InsertFails("FactFlight", Len(batch_params))
     ELSE /\ pc' = "commit_facts"
          /\ UNCHANGED <<storage, log, history, maps, factloop>>
  /\ UNCHANGED <<config, yi, conns, source, transformed, total_flights, attempted>>

\* lines 289-292
CommitFacts ==
  /\ pc = "commit_facts"
  /\ \/ /\ db' = tx
        /\ log' = Append(log, Call("commit", "", 0, "ok"))
        /\ pc' = "close_source"
        /\ UNCHANGED <<tx, identity, history, maps, factloop>>
     \/ CommitFails
  /\ UNCHANGED <<config, yi, conns, source, transformed, total_flights, attempted>>

(***************************************************************************)
(* etl_process: the end of a year and of the run                           *)
(***************************************************************************)
\* the locals of the finished iteration are dead; they are cleared, and so is
\* what was observed of the year
Advance ==
  /\ yi' = yi + 1
  /\ pc' = "loop"
  /\ flight_data' = <<>> /\ airline_data' = <<>> /\ airport_data' = <<>>
  /\ dim_date_data' = <<>> /\ dim_airline_data' = {} /\ dim_airport_data' = {}
  /\ fact_flight_data' = <<>> /\ invalid_times' = <<>>
  /\ airline_map' = EmptyMap /\ airport_map' = EmptyMap /\ date_map' = {}
  /\ total_inserted' = 0 /\ batch_params' = <<>> /\ skipped_rows' = 0 /\ i' = 1
  /\ log' = <<>>
  /\ history' = [history EXCEPT !.repeat = FALSE,
                                !.periodDb = EmptyDb,
                                !.periodFact = IdentitySeed,
                                !.extractFailed = {}]
  /\ UNCHANGED <<config, target_exists, target_conn, storage, total_flights,
                 attempted>>

\* source_cursor.close(), source_conn.close(), and on to the next year
NextYear == source_conn' = "closed" /\ Advance

\* lines 339-340
CloseSource == pc = "close_source" /\ NextYear

\* lines 341-345 without the two close() calls
YearFailedLeak == pc = "year_failed" /\ Advance /\ UNCHANGED source_conn

\* lines 341-345
YearFailed == pc = "year_failed" /\ NextYear

\* lines 347-350 one iteration early
VerifyEarly ==
  /\ pc = "loop"
  /\ yi >= Len(years)
  /\ \/ /\ total_flights' = Cardinality(tx.FactFlight)
        /\ UNCHANGED tx
     \/ /\ tx' = db
        /\ UNCHANGED total_flights
  /\ history' = [history EXCEPT !.counted = @ + 1]
  /\ pc' = "finally"
  /\ UNCHANGED <<config, yi, conns, db, identity, source, transformed, maps,
                 factloop, log, attempted>>

\* lines 347-350, and 352-354 when the query raises
Verify ==
  /\ pc = "loop"
  /\ yi > Len(years)
  /\ \/ /\ total_flights' = Cardinality(tx.FactFlight)
        /\ UNCHANGED tx
     \/ /\ tx' = db
        /\ UNCHANGED total_flights
  /\ history' = [history EXCEPT !.counted = @ + 1]
  /\ pc' = "finally"
  /\ UNCHANGED <<config, yi, conns, db, identity, source, transformed, maps,
                 factloop, log, attempted>>

\* lines 355-357; closing the connection discards what is not committed
Finally ==
  /\ pc = "finally"
  /\ target_conn' = "closed"
  /\ tx' = db
  /\ pc' = "done"
  /\ UNCHANGED <<config, yi, target_exists, source_conn, db, identity, source,
                 transformed, maps, factloop, total_flights, log, attempted, history>>

(***************************************************************************)
(* Specifications                                                          *)
(***************************************************************************)
Common ==
  \/ ConnectTarget \/ CreateTables \/ ConnectSource \/ Transform
  \/ LoadDimDate \/ LoadDimAirline \/ LoadDimAirport \/ CommitDims
  \/ RefreshMaps \/ FactIteration \/ FactRemaining \/ CommitFacts
  \/ CloseSource \/ YearFailed \/ Verify \/ Finally

Next ==
  \/ Start \/ Common
  \/ ExtractFlight(SeqUpTo(FlightRows, MaxFlights))
  \/ ExtractAirline(SeqUpTo(AirlineRows, MaxAirlines))
  \/ ExtractAirport(SeqUpTo(AirportRows, MaxRefRows))

NextLoad ==
  \/ Start \/ Common
  \/ ExtractFlight(SeqUpTo(FlightRowsLoad, MaxFlightsLoad))
  \/ ExtractAirline(SeqUpTo(AirlineRowsLoad, MaxRefRows))
  \/ ExtractAirport(SeqUpTo(AirportRows, MaxRefRows))

NextDrop ==
  \/ DropDatabase \/ Common
  \/ ExtractFlight(SeqUpTo(FlightRows, MaxFlights))
  \/ ExtractAirline(SeqUpTo(AirlineRows, MaxAirlines))
  \/ ExtractAirport(SeqUpTo(AirportRows, MaxRefRows))

NextTime ==
  \/ Start \/ Common
  \/ ExtractFlight(SeqUpTo(FlightRowsTime, MaxTimeRows))
  \/ ExtractAirline(SeqUpTo({[IATA_CODE |-> "AA", AIRLINE |-> "American"]}, MaxAirlines))
  \/ ExtractAirport(SeqUpTo(AirportRows, MaxRefRows))

NextDate ==
  \/ Start \/ Common
  \/ ExtractFlight(SeqUpTo(FlightRowsDate, MaxDateRows)
                     \cup {<<r>> : r \in FlightRowsCalendar})
  \/ ExtractAirline(SeqUpTo({[IATA_CODE |-> "AA", AIRLINE |-> "American"]}, MaxAirlines))
  \/ ExtractAirport(SeqUpTo(AirportRows, MaxAirlines))

\* the run of __main__: three years
Spec == Init /\ [][Next]_vars

\* a run for one year with longer source tables
SpecLoad == InitLoad /\ [][NextLoad]_vars

\* the run of __main__; the interpreter always takes the next step
FairSpec == Spec /\ WF_vars(Next)

\* a run for one year over the values DEPARTURE_TIME can have
SpecTime == InitTime /\ [][NextTime]_vars

\* a run for one year over the dates a FLIGHT row can have
SpecDate == InitDate /\ [][NextDate]_vars

\* a run for one year that asks for the target to be dropped first
SpecDrop == InitDrop /\ [][NextDrop]_vars

(***************************************************************************)
(* Properties                                                              *)
(***************************************************************************)
\* the fact rows of d that the current period's load_data inserted
PeriodFacts(d) == {f \in d.FactFlight : f.FlightID >= history.periodFact}

DimTables == {"DimDate", "DimAirline", "DimAirport"}

\* the bulk inserts of the current load_data into the tables of T, in order
RECURSIVE CallsOn(_, _)
CallsOn(T, calls) ==
  IF calls = <<>> THEN <<>>
  ELSE LET c == calls[Len(calls)]
           front == CallsOn(T, SubSeq(calls, 1, Len(calls) - 1))
       IN IF c.op = "executemany" /\ c.table \in T THEN Append(front, c) ELSE front

\* C1: every committed FactFlight row references, by DateKey, AirlineKey,
\* OriginAirportKey and DestAirportKey, a row committed in DimDate, DimAirline
\* and DimAirport, whatever loads succeeded or failed before.
FKSafety ==
  \A f \in db.FactFlight :
     /\ \E d \in db.DimDate : d.DateKey = f.DateKey
     /\ \E a \in db.DimAirline : a.AirlineKey = f.AirlineKey
     /\ \E o \in db.DimAirport : o.AirportKey = f.OriginAirportKey
     /\ \E d \in db.DimAirport : d.AirportKey = f.DestAirportKey

\* fact rows are committed and a later load has failed and rolled back
FKSafetyWitness ==
  /\ pc = "year_failed"
  /\ db.FactFlight # {}
  /\ \E k \in 1..Len(log) : log[k].op = "rollback"

\* C2: while load_data loops, the rows examined are the rows inserted, those
\* waiting in batch_params and those skipped; when the load has succeeded
\* total_inserted + skipped_rows = len(fact_flight_data) and total_inserted
\* is the number of fact rows the load added to the warehouse.
SkipAccounting ==
  /\ pc = "fact_loop" => i - 1 = total_inserted + Len(batch_params) + skipped_rows
  /\ pc \in {"commit_facts", "close_source"} =>
        /\ total_inserted + skipped_rows = Len(fact_flight_data)
        /\ Cardinality(PeriodFacts(tx)) = total_inserted
  /\ pc = "close_source" => Cardinality(PeriodFacts(db)) = total_inserted

\* a load has succeeded that skipped rows and inserted more than one chunk
SkipAccountingWitness ==
  /\ pc = "close_source"
  /\ skipped_rows > 0
  /\ total_inserted > BATCH_SIZE

\* C3: a load_data whose date, airline and airport candidates are those of the
\* load_data before it, whose dimension inserts were committed, issues no
\* dimension insert and leaves the three dimension tables as that commit left
\* them.
IdempotentDimensionLoad ==
  history.repeat =>
     /\ CallsOn(DimTables, log) = <<>>
     /\ Dims(tx) = history.prevDims

\* the second of two dimension loads of the same non-empty candidates is done
IdempotentDimensionLoadWitness ==
  /\ history.repeat
  /\ pc = "refresh"
  /\ dim_date_data # <<>> /\ dim_airline_data # {} /\ dim_airport_data # {}

\* the sizes of the calls, in order
Sizes(calls) == [k \in 1..Len(calls) |-> calls[k].n]

\* the rows the calls that went through have inserted
RECURSIVE InsertedBy(_)
InsertedBy(calls) ==
  IF calls = <<>> THEN 0
  ELSE InsertedBy(Tail(calls)) + (IF Head(calls).outcome = "ok" THEN Head(calls).n ELSE 0)

\* the rows of a set of FactFlight rows in the order of their FlightID
RECURSIVE ByFlightID(_)
ByFlightID(rows) ==
  IF rows = {} THEN <<>>
  ELSE LET first == CHOOSE r \in rows : \A q \in rows : r.FlightID <= q.FlightID
       IN <<first>> \o ByFlightID(rows \ {first})

\* the codes and the date key of a candidate fact row are those of committed
\* dimension rows
Resolvable(row) ==
  /\ row.airline_iata \in IataCodes(db.DimAirline)
  /\ row.origin_iata \in IataCodes(db.DimAirport)
  /\ row.dest_iata \in IataCodes(db.DimAirport)
  /\ row.date_key \in DateKeys(db.DimDate)

\* the date keys of the rows of fact_flight_data[1..n] that resolve, in order
RECURSIVE ResolvableKeys(_)
ResolvableKeys(n) ==
  IF n = 0 THEN <<>>
  ELSE IF Resolvable(fact_flight_data[n])
       THEN Append(ResolvableKeys(n - 1), fact_flight_data[n].date_key)
       ELSE ResolvableKeys(n - 1)

\* the date keys of the rows load_data has sent or holds in batch_params
AdmittedKeys ==
  LET sent == ByFlightID(PeriodFacts(tx))
  IN [k \in 1..Len(sent) |-> sent[k].DateKey] \o
     [k \in 1..Len(batch_params) |-> batch_params[k].date_key]

CeilDiv(n, b) == (n + b - 1) \div b

\* C4 (as claimed): every bulk insert of a fact chunk that went through is
\* followed by a commit before load_data issues its next call.
CommitPerChunk ==
  \A k \in 1..(Len(log) - 1) :
     (log[k].op = "executemany" /\ log[k].table = "FactFlight" /\ log[k].outcome = "ok")
        => log[k + 1].op = "commit"

\* C5 (as claimed): when the bulk insert of a fact chunk fails with a storage
\* error, the rows of the chunks inserted before it in the same load_data stay
\* in FactFlight once the failure is handled.
ChunkScopedRollback ==
  LET calls == CallsOn({"FactFlight"}, log)
  IN (/\ pc = "year_failed"
      /\ calls # <<>>
      /\ calls[Len(calls)].outcome = "storage_error")
        => Cardinality(PeriodFacts(db)) = InsertedBy(calls)

\* C6: load_data sends the admissible rows in source order in calls of exactly
\* BATCH_SIZE rows and, when BATCH_SIZE does not divide their number n, a last
\* call of n mod BATCH_SIZE rows: ceil(n / BATCH_SIZE) calls, none empty, none
\* larger than BATCH_SIZE, none when n = 0, whatever rows are skipped between.
ChunkSizes ==
  LET calls == CallsOn({"FactFlight"}, log)
      B == BATCH_SIZE
  IN /\ \A k \in 1..Len(calls) : calls[k].n >= 1 /\ calls[k].n <= B
     /\ \A k \in 1..(Len(calls) - 1) : calls[k].n = B
     /\ pc = "fact_loop" => \A k \in 1..Len(calls) : calls[k].n = B
     /\ pc \in {"commit_facts", "close_source"} =>
           LET n == Len(ResolvableKeys(Len(fact_flight_data)))
           IN /\ Len(calls) = CeilDiv(n, B)
              /\ n > 0 => calls[Len(calls)].n = (IF n % B = 0 THEN B ELSE n % B)
              /\ AdmittedKeys = ResolvableKeys(Len(fact_flight_data))

\* five admissible rows went out in calls of 2, 2 and 1
ChunkSizesWitness ==
  /\ pc = "close_source"
  /\ BATCH_SIZE = 2
  /\ Sizes(CallsOn({"FactFlight"}, log)) = <<2, 2, 1>>

\* C7 (as claimed): when a FLIGHT, AIRLINE or AIRPORT query of the current year
\* has failed after an earlier year's fact rows were committed, the year adds
\* no row to the warehouse: the committed tables stay as they were when the
\* year began.  (A year whose connection fails has no further step.)
ExtractFailureContained ==
  (history.extractFailed # {} /\ history.periodDb.FactFlight # {})
     => db = history.periodDb

IsPrefix(s, t) == Len(s) <= Len(t) /\ s = SubSeq(t, 1, Len(s))

\* C8: once the target is connected and its tables exist, the years are
\* attempted in list order, each once, and the run ends having attempted all
\* of them, whichever of them failed.
EveryPeriodAttempted ==
  /\ [](IsPrefix(attempted, years))
  /\ (pc = "loop") ~> (pc = "done" /\ attempted = years)

\* the third year is being attempted after a load that was rolled back
EveryPeriodAttemptedWitness ==
  /\ pc = "extract_flight"
  /\ yi = Len(years)
  /\ attempted = years
  /\ identity.FactFlight > IdentitySeed
  /\ db.FactFlight = {}

\* C9: of the rows load_data has examined, exactly those whose airline, origin
\* and destination code and date key are in the committed dimension tables
\* have been sent or wait in batch_params, in order; all others are counted in
\* skipped_rows.
AdmissibilityExact ==
  pc \in {"fact_loop", "commit_facts", "close_source"} =>
     /\ AdmittedKeys = ResolvableKeys(i - 1)
     /\ skipped_rows = (i - 1) - Len(ResolvableKeys(i - 1))

\* a load has examined rows that resolve and rows that do not
AdmissibilityExactWitness ==
  /\ pc = "close_source"
  /\ skipped_rows > 0
  /\ total_inserted > 0
  /\ \E k \in 1..Len(fact_flight_data) :
        /\ ~Resolvable(fact_flight_data[k])
        /\ fact_flight_data[k].airline_iata \notin IataCodes(db.DimAirline)

\* the airline codes that several candidates of this load carry and that the
\* warehouse did not have
NewDuplicateCodes ==
  {c \in IataCodes(dim_airline_data) :
     /\ Cardinality({r \in dim_airline_data : r.IATA_CODE = c}) > 1
     /\ c \notin IataCodes(history.periodDb.DimAirline)}

\* C10 (as claimed): when several airline candidates carry one new iata_code,
\* the bulk insert of the airlines, unless the storage itself fails, goes
\* through, and the load ends with one DimAirline row for that code.
DuplicateKeysCollapse ==
  LET calls == CallsOn({"DimAirline"}, log)
  IN /\ (NewDuplicateCodes # {} /\ calls # <<>>
           /\ calls[1].outcome \notin {"storage_error", "other_error"})
        => calls[1].outcome = "ok"
     /\ (NewDuplicateCodes # {} /\ pc = "close_source")
        => \A c \in NewDuplicateCodes :
              Cardinality({r \in db.DimAirline : r.IATA_CODE = c}) = 1

\* C11 (as claimed): after a drop_database that failed, the run does not
\* create the tables and attempts no year.
FailedDropIsFatal ==
  history.dropFailed => (~history.bootstrapped /\ attempted = <<>>)

\* C12: a source connection is opened, a year attempted and a row loaded only
\* after the target was connected and its tables were created; a run in which
\* either failed is at its end; and the target connection is not open when
\* the run has ended.
TargetFailureFatal ==
  /\ (attempted # <<>> \/ source_conn # "none" \/ log # <<>> \/ db # EmptyDb)
        => (history.bootstrapped /\ target_conn # "none")
  /\ (~history.bootstrapped /\ pc \notin {"start", "connect_target", "create_tables"})
        => pc \in {"finally", "done"}
  /\ pc = "done" => target_conn # "open"

\* the creation of the tables failed and the run ended with the target
\* connection closed
TargetFailureFatalWitness ==
  /\ pc = "done"
  /\ ~history.bootstrapped
  /\ target_conn = "closed"
  /\ attempted = <<>>
  /\ source_conn = "none"

\* HH:MM:SS with an optional fraction of at most 3 digits
Canonical(v) == v.type = "str" /\ TimePattern(v.chars, 3)

\* the diagnostics recorded for the k-th FLIGHT row
Diagnostics(k) == {j \in 1..Len(invalid_times) : invalid_times[j].row = k - 1}

\* C13 (as claimed): for every FLIGHT row transform_data gives as
\* departure_time either a string HH:MM:SS with a fraction of at most 3
\* digits and no diagnostic, or None with exactly one diagnostic (row index,
\* original value); a time object is always converted.
TimeNormalized ==
  (flight_data # <<>> /\ Len(fact_flight_data) = Len(flight_data)) =>
     \A k \in 1..Len(flight_data) :
        LET raw == flight_data[k].DEPARTURE_TIME
            out == fact_flight_data[k].departure_time
        IN /\ \/ Canonical(out) /\ Diagnostics(k) = {}
              \/ /\ out = PyNone
                 /\ Cardinality(Diagnostics(k)) = 1
                 /\ \A j \in Diagnostics(k) : invalid_times[j].value = raw
           /\ raw.type = "time" => Canonical(out)

\* year, month and day of a FLIGHT row
Triple(row) == <<row.YEAR, row.MONTH, row.DAY>>

\* C14: for every FLIGHT row with a four-digit year, a month in 1..12 and a
\* day in 1..31, transform_data gives the fact tuple the date_key
\* year*10000 + month*100 + day, the date candidates hold that key with the
\* row's year, month and day, and rows with different (year, month, day) get
\* different keys.
DateKeyDerivation ==
  (flight_data # <<>> /\ Len(fact_flight_data) = Len(flight_data)) =>
     \A k \in 1..Len(flight_data) :
        LET row == flight_data[k]
            key == row.YEAR * 10000 + row.MONTH * 100 + row.DAY
        IN (row.YEAR \in 1000..9999 /\ row.MONTH \in 1..12 /\ row.DAY \in 1..31) =>
              /\ fact_flight_data[k].date_key = key
              /\ [DateKey |-> key, Year |-> row.YEAR, Month |-> row.MONTH,
                  Day |-> row.DAY] \in Range(dim_date_data)
              /\ \A j \in 1..Len(flight_data) :
                    Triple(flight_data[j]) # Triple(row)
                       => fact_flight_data[j].date_key # fact_flight_data[k].date_key

\* rows of 11 January and of 1 November of one year were transformed
DateKeyDerivationWitness ==
  /\ pc = "dim_date"
  /\ Len(fact_flight_data) = 2
  /\ Triple(flight_data[1]) = <<2023, 1, 11>>
  /\ Triple(flight_data[2]) = <<2023, 11, 1>>
  /\ fact_flight_data[1].date_key = 20230111
  /\ fact_flight_data[2].date_key = 20231101

\* no two rows of a dimension table have the same key
UniqueKeys(d) ==
  /\ \A r, q \in d.DimDate : r.DateKey = q.DateKey => r = q
  /\ \A r, q \in d.DimAirline : (r.IATA_CODE = q.IATA_CODE \/ r.AirlineKey = q.AirlineKey) => r = q
  /\ \A r, q \in d.DimAirport : (r.IATA_CODE = q.IATA_CODE \/ r.AirportKey = q.AirportKey) => r = q

\* C15: in a run without a drop every committed dimension row stays in its
\* table as it is through every step, and no dimension table ever has two
\* committed rows with one date_key or one iata_code: a year that offers a
\* stored key with other attributes neither changes the row nor adds one.
AppendOnlyDimensions ==
  /\ [][/\ db.DimDate \subseteq db'.DimDate
        /\ db.DimAirline \subseteq db'.DimAirline
        /\ db.DimAirport \subseteq db'.DimAirport]_vars
  /\ [](UniqueKeys(db) /\ UniqueKeys(tx))

\* a year that offered AA under another name has been loaded, and the row
\* committed before it is the only one
AppendOnlyDimensionsWitness ==
  /\ pc = "close_source"
  /\ dim_airline_data = {[IATA_CODE |-> "AA", Airline |-> "American Airlines"]}
  /\ history.periodDb.DimAirline = {[AirlineKey |-> 1, IATA_CODE |-> "AA", Airline |-> "American"]}
  /\ db.DimAirline = history.periodDb.DimAirline

\* C16: load_data has no lookup map before its dimension inserts are
\* committed; the maps it resolves the fact rows with are those of the
\* committed dimension tables, every dimension insert of the call precedes a
\* commit in the call's log, and the set of dates holds the date key of every
\* date candidate and of every fact row of the call.
DimensionsBeforeFacts ==
  /\ pc \in DimPcs \cup {"refresh"} =>
        (airline_map = EmptyMap /\ airport_map = EmptyMap /\ date_map = {})
  /\ pc \in {"fact_loop", "commit_facts"} =>
        /\ date_map = DateKeys(db.DimDate)
        /\ airline_map = AirlineMap(db.DimAirline)
        /\ airport_map = AirportMap(db.DimAirport)
        /\ \E c \in 1..Len(log) :
              /\ log[c].op = "commit" /\ log[c].outcome = "ok"
              /\ \A j \in 1..Len(log) : log[j].table \in DimTables => j < c
        /\ Range(DateKeySeq(dim_date_data)) \subseteq date_map
        /\ \A k \in 1..Len(fact_flight_data) : fact_flight_data[k].date_key \in date_map

\* the fact loop runs with a date that this call inserted and committed
DimensionsBeforeFactsWitness ==
  /\ pc = "fact_loop"
  /\ history.periodDb.DimDate = {}
  /\ CallsOn({"DimDate"}, log) # <<>>
  /\ fact_flight_data # <<>>
  /\ fact_flight_data[1].date_key \in date_map

\* positions of etl_process inside the try block of one year
YearPcs ==
  {"extract_flight", "extract_airline", "extract_airport", "transform", "refresh",
   "fact_loop", "commit_facts", "close_source", "year_failed"} \cup DimPcs

\* C17: while a year is processed its source connection is open; at the head
\* of the loop, where the next connection is opened, and at the end of the
\* run no source connection is open, whether the year before succeeded or
\* failed.  The one variable source_conn is then the only open connection.
SourceLifecycle ==
  /\ pc \in YearPcs => source_conn = "open"
  /\ pc \in {"loop", "finally", "done"} => source_conn # "open"
  /\ pc \in {"start", "connect_target", "create_tables"} => source_conn = "none"

\* the second year is about to start after a year whose load was rolled
\* back, and that year's connection is closed
SourceLifecycleWitness ==
  /\ pc = "loop"
  /\ yi = 2
  /\ source_conn = "closed"
  /\ identity.FactFlight > IdentitySeed
  /\ tx.FactFlight = {}

\* C18 (as claimed): a run that created the tables has, once the loop over
\* the years is left, the count of FactFlight to report.
CountReported ==
  (history.bootstrapped /\ pc \in {"finally", "done"}) => total_flights # None

\* C18 (amended): a run that created the tables issues the count query once,
\* after every year was attempted and while the target connection is open,
\* and holds the count the query returned unless the query failed; the query
\* is issued at no other time.
CountQueriedOnce ==
  /\ [](pc \notin {"finally", "done"} => (history.counted = 0 /\ total_flights = None))
  /\ []((history.bootstrapped /\ pc \in {"finally", "done"}) =>
           (history.counted = 1 /\ attempted = years))
  /\ [](~history.bootstrapped => history.counted = 0)
  /\ [][history.counted' # history.counted =>
          /\ target_conn = "open" /\ target_conn' = "open"
          /\ source_conn # "open"
          /\ total_flights' \in {None, Cardinality(tx.FactFlight)}]_vars

\* the count was taken after three years of which one loaded a row
CountQueriedOnceWitness ==
  /\ pc = "finally"
  /\ target_conn = "open"
  /\ attempted = years
  /\ history.counted = 1
  /\ total_flights = 1

\* C19 (as claimed): when load_data has ended with an exception the target
\* connection holds no uncommitted insert.
NoLeakedWrites ==
  pc = "year_failed" => tx = db

\* a dimension insert of the current load_data was answered by a pyodbc.Error
DimensionInsertFailed ==
  \E k \in 1..Len(log) :
     /\ log[k].table \in DimTables
     /\ log[k].outcome \in {"storage_error", "integrity_error"}

\* C20: when one of the three dimension inserts of a load_data call has
\* failed with a storage error, the committed tables are those of the start
\* of the year, the connection holds nothing beyond them, and the call has
\* issued no insert into FactFlight.
DimensionPhaseAtomic ==
  (pc = "year_failed" /\ DimensionInsertFailed) =>
     /\ db = history.periodDb
     /\ tx = db
     /\ CallsOn({"FactFlight"}, log) = <<>>

\* the dates were inserted, the insert of the airlines failed, and no date
\* is left
DimensionPhaseAtomicWitness ==
  /\ pc = "year_failed"
  /\ Len(log) = 3
  /\ log[1] = Call("executemany", "DimDate", 1, "ok")
  /\ log[2].table = "DimAirline" /\ log[2].outcome = "storage_error"
  /\ log[3].op = "rollback"
  /\ tx.DimDate = {}

\* the indices of the rows of fact_flight_data[1..n] that resolve, in order
RECURSIVE ResolvableIdx(_)
ResolvableIdx(n) ==
  IF n = 0 THEN <<>>
  ELSE IF Resolvable(fact_flight_data[n])
       THEN Append(ResolvableIdx(n - 1), n)
       ELSE ResolvableIdx(n - 1)

\* key is the surrogate key of exactly the rows with that iata_code, and
\* there is one
KeyOfCode(rows, keys, key, code) ==
  /\ Cardinality({k \in 1..Len(rows) : rows[k].IATA_CODE = code}) = 1
  /\ \A k \in 1..Len(rows) : (rows[k].IATA_CODE = code) <=> (keys[k] = key)

\* the rows of a set in some order
AsSeq(S) == CHOOSE q \in Orders(S) : TRUE

\* C21: the k-th fact row load_data has inserted comes from the k-th FLIGHT
\* row that resolves: its airline, origin and destination keys are the keys
\* of exactly the DimAirline and DimAirport rows with the row's three codes,
\* its date key is year*10000 + month*100 + day of the row, and its distance
\* and delays are the row's.
KeysResolved ==
  pc \in {"fact_loop", "commit_facts", "close_source"} =>
     LET sent == ByFlightID(PeriodFacts(tx))
         idx == ResolvableIdx(i - 1)
         airlines == AsSeq(db.DimAirline)
         airports == AsSeq(db.DimAirport)
         airlineKeys == [k \in 1..Len(airlines) |-> airlines[k].AirlineKey]
         airportKeys == [k \in 1..Len(airports) |-> airports[k].AirportKey]
     IN /\ Len(sent) <= Len(idx)
        /\ \A k \in 1..Len(sent) :
              LET src == flight_data[idx[k]]
                  row == sent[k]
              IN /\ KeyOfCode(airlines, airlineKeys, row.AirlineKey, src.AIRLINE)
                 /\ KeyOfCode(airports, airportKeys, row.OriginAirportKey, src.ORIGIN_AIRPORT)
                 /\ KeyOfCode(airports, airportKeys, row.DestAirportKey, src.DESTINATION_AIRPORT)
                 /\ row.DateKey = src.YEAR * 10000 + src.MONTH * 100 + src.DAY
                 /\ row.DateKey = fact_flight_data[idx[k]].date_key
                 /\ row.Distance = src.DISTANCE
                 /\ row.ArrivalDelay = src.ARRIVAL_DELAY
                 /\ row.DepartureDelay = src.DEPARTURE_DELAY

\* a load has stored a flight of AA from JFK to LAX and one of DL back
KeysResolvedWitness ==
  /\ pc = "close_source"
  /\ total_inserted >= 2
  /\ \E f, g \in PeriodFacts(db) :
        /\ f.AirlineKey # g.AirlineKey
        /\ f.OriginAirportKey = g.DestAirportKey
        /\ f.DestAirportKey = g.OriginAirportKey
        /\ f.OriginAirportKey # f.DestAirportKey

====
